---- MODULE Spec2Model ----
(***************************************************************************)
(* State-machine model of the 3-D sensor viewer of src/src/App.jsx         *)
(* (AircraftViewer3D): pointer/touch handlers, the animation loop, the     *)
(* resize handler, the selection state and the effect cleanup, together    *)
(* with the risk classification helpers used by the surrounding dashboard. *)
(*                                                                         *)
(* Numbers.  Angles are integers in units of 1/2000 rad, so that the       *)
(* source's 0.012, 0.006, 0.7, 0.0025 and 0.0015 are 24, 12, 1400, 5 and   *)
(* 3.  rotation.y and velX carry Scale = 50^MaxDecay further fractional    *)
(* units, so that "* 0.94" (= 47/50) is exact for MaxDecay decays.         *)
(* Time is in ticks of 1/TicksPerSecond s.  The time accumulator t is in   *)
(* units of 0.008.  NaN is a reserved integer that every arithmetic        *)
(* operator propagates.  Marker scale, emissive intensity and opacity are  *)
(* in thousandths, the argument of Math.sin in thousandths of a radian.    *)
(* Heights are in pixels; lengths across the viewer are in units of a      *)
(* tenth of the width the container has at mount.                          *)
(***************************************************************************)
EXTENDS Integers, Sequences, FiniteSets, TLC

VARIABLES
  \* ---- props and values captured by the mount effect
  sensors,        \* SENSORS_3D: the list of sensor records
  sensorMeshes,   \* the marker cores, each with userData.sensor
  isMobile,       \* const isMobile of the mount effect
  W, H,           \* mount.clientWidth / clientHeight captured at mount
  userAgent,      \* navigator.userAgent, as its words
  widthAtMount,   \* window.innerWidth as the mount effect read it
  profile,        \* everything the mount effect derives from isMobile
  \* ---- DOM / three.js objects
  container,      \* current <<clientWidth, clientHeight>> of the mount div
  cameraAspect,   \* camera.aspect as the pair <<num, den>>
  rendererSize,   \* renderer size <<w, h>>
  innerWidth,     \* window.innerWidth
  uiMobile,       \* state of the useIsMobile hook of the component
  cursor,         \* mount.style.cursor
  listeners,      \* registered listeners, <<target, type>>
  canvasAttached, \* mount.contains(renderer.domElement)
  disposed,       \* renderer.dispose() has been called
  raised,         \* the operation an exception escaped from, or "none"
  \* ---- closure variables of the interaction controller
  isDragging, dragDist, lastX, lastY, velX,
  rotationY, rotationX,  \* aircraft.rotation.y / .x
  \* ---- selection / hover
  selected,       \* React state `selected` (a sensor record or JsNull)
  selectedId,     \* stateRef.current.selectedId
  hoveredId,      \* stateRef.current.hoveredId
  \* ---- animation loop
  rafId,          \* closure variable rafId
  rafQueue,       \* frame callbacks requested and not yet run or cancelled
  rafSeq,         \* last handle handed out by requestAnimationFrame
  t, lastFrameTime,
  now,            \* timestamp of the latest frame callback
  renders,        \* number of renderer.render calls
  drawn,          \* per marker, the scale / emissive / opacity last written
  rendersAtTeardown, \* renders at the moment the cleanup started
  \* ---- effect cleanup
  tdPc,           \* number of times the effect cleanup has run
  tdLog,          \* the cleanup statements run, with what each one found
  \* ---- history of the idle spin (not program state)
  idleFrom,       \* velX when the latest drag was released
  idleSteps,      \* animation steps executed since with the pointer up
  \* ---- risk display (dashboard)
  risk,           \* the risk score being displayed
  riskView        \* what the display sites derived from it

orbitVars == <<isDragging, dragDist, lastX, lastY, velX, rotationY, rotationX>>
selVars   == <<selected, selectedId>>
hoverVars == <<hoveredId, cursor>>
loopVars  == <<rafId, rafQueue, rafSeq, t, lastFrameTime, now, renders, drawn>>
sizeVars  == <<container, cameraAspect, rendererSize, innerWidth, uiMobile>>
mountVars == <<sensors, sensorMeshes, isMobile, W, H, userAgent, widthAtMount, profile>>
tdVars    == <<listeners, canvasAttached, disposed, tdPc, tdLog, rendersAtTeardown,
               raised>>
riskVars  == <<risk, riskView>>
idleVars  == <<idleFrom, idleSteps>>
vars == <<orbitVars, selVars, hoverVars, loopVars, sizeVars, mountVars, tdVars,
          riskVars, idleVars>>

----------------------------------------------------------------------------
\* Bounds of the model
MaxDecay == 2          \* velocity decays that stay exact in fixed point
MaxFrames == 3         \* frame callbacks explored, animate(0) included
MaxDragDist == 7       \* a drag is followed until dragDist reaches this
MaxRotY == 80          \* |rotation.y| explored, in 1/2000 rad
TicksPerSecond == 120  \* resolution of the clock

RECURSIVE Pow(_, _)
Pow(b, n) == IF n = 0 THEN 1 ELSE b * Pow(b, n - 1)
Scale == Pow(50, MaxDecay)

\* JavaScript values
JsNull == [null |-> TRUE]
Undefined == "undefined"
NullId == "null"
NaN == 0 - 999999
IsNaN(v) == v = NaN
Sub(a, b) == IF IsNaN(a) \/ IsNaN(b) THEN NaN ELSE a - b
Abs(v) == IF IsNaN(v) THEN NaN ELSE IF v < 0 THEN 0 - v ELSE v

----------------------------------------------------------------------------
\* Helpers (App.jsx 25-28)
Min(a, b) == IF a < b THEN a ELSE b
Max(a, b) == IF a > b THEN a ELSE b
\* Faulty variant of clamp: the upper limit is forgotten
clampBelow(v, min, max) == IF IsNaN(v) THEN NaN ELSE Max(v, min)
clamp(v, min, max) == IF IsNaN(v) THEN NaN ELSE Min(Max(v, min), max)

RISK_COLOR(r) == IF r < 30 THEN "#00e5c0" ELSE IF r < 60 THEN "#f5a623" ELSE "#ff3b5c"
RISK_COLOR_HEX(r) == IF r < 30 THEN "0x00e5c0" ELSE IF r < 60 THEN "0xf5a623" ELSE "0xff3b5c"
\* Faulty variant of RISK_LABEL: 30 is still nominal
RiskLabelInclusive(r) == IF r <= 30 THEN "NOMINAL" ELSE IF r < 60 THEN "WATCH" ELSE "CRITICAL"
RISK_LABEL(r) == IF r < 30 THEN "NOMINAL" ELSE IF r < 60 THEN "WATCH" ELSE "CRITICAL"

----------------------------------------------------------------------------
\* Sensor records (App.jsx 104, 110: id, subsystem, pos in tenths, risk)
SensorA == [id |-> "eng1", subsystem |-> "eng", pos |-> <<-17, -6, 5>>, risk |-> 42]
SensorB == [id |-> "frame47", subsystem |-> "struct", pos |-> <<0, 0, 4>>, risk |-> 61]

\* Rationals are pairs <<num, den>> with den > 0; <<NaN, 1>> is NaN.
QLeq(a, b) == a[1] * b[2] <= b[1] * a[2]
QIsNaN(q) == IsNaN(q[1])

\* What the camera projection makes of a core sphere: the rectangle of
\* normalized device coordinates its silhouette covers, and the distance from
\* the ray origin at which a ray through that rectangle meets it.  This table
\* stands for three.js' PerspectiveCamera/Raycaster geometry.
CoreProjection(sensor) ==
  IF sensor.id = "eng1"
  THEN [xlo |-> <<-7, 10>>, xhi |-> <<1, 10>>, ylo |-> <<97, 100>>, yhi |-> <<99, 100>>,
        distance |-> 15]
  ELSE [xlo |-> <<-1, 10>>, xhi |-> <<3, 10>>, ylo |-> <<97, 100>>, yhi |-> <<99, 100>>,
        distance |-> 12]

\* A property read: sensor.id of a record without that field is undefined
HasPos(sensor) == "pos" \in DOMAIN sensor
IdOf(sensor) == IF "id" \in DOMAIN sensor THEN sensor.id ELSE Undefined

\* glow.position.set(...sensor.pos) (App.jsx 556): spreading undefined raises
\* a TypeError
SpreadThrows(sensor) == ~HasPos(sensor)

\* Faulty variant of BuildCores: each core is put in front of the earlier ones
BuildCoresInFront(list) ==
  [i \in 1..Len(list) |->
     [userData |-> [sensor |-> list[Len(list) + 1 - i]],
      tint |-> RISK_COLOR_HEX(list[Len(list) + 1 - i].risk)]]

\* Sensor nodes (App.jsx 545-573): one core per sensor, pushed in input order,
\* until a record raises
RECURSIVE BuildCores(_)
BuildCores(list) ==
  IF list = <<>> THEN <<>>
  ELSE IF SpreadThrows(Head(list)) THEN <<>>
  ELSE <<[userData |-> [sensor |-> Head(list)],
          tint |-> RISK_COLOR_HEX(Head(list).risk)]>> \o BuildCores(Tail(list))

\* Does SENSORS_3D.forEach (App.jsx 550-573) raise, aborting the mount effect?
ForEachThrows(list) == \E i \in DOMAIN list : SpreadThrows(list[i])

\* new THREE.Vector2((cx/W)*2-1, -(cy/H)*2+1)   (App.jsx 603, 615)
ToNDC(cx, cy, w, h) ==
  [x |-> IF IsNaN(cx) THEN <<NaN, 1>> ELSE <<2 * cx - w, w>>,
   y |-> IF IsNaN(cy) THEN <<NaN, 1>> ELSE <<h - 2 * cy, h>>]

\* Raycaster: does the ray through ndc meet the core?  (a NaN ray meets nothing)
RayMeets(core, ndc) ==
  LET p == CoreProjection(core.userData.sensor) IN
    /\ ~QIsNaN(ndc.x) /\ ~QIsNaN(ndc.y)
    /\ QLeq(p.xlo, ndc.x) /\ QLeq(ndc.x, p.xhi)
    /\ QLeq(p.ylo, ndc.y) /\ QLeq(ndc.y, p.yhi)

\* Array.prototype.sort(ascSort) on the intersections: stable insertion by distance
RECURSIVE InsertByDistance(_, _)
InsertByDistance(hit, sorted) ==
  IF sorted = <<>> THEN <<hit>>
  ELSE IF hit.distance < Head(sorted).distance THEN <<hit>> \o sorted
  ELSE <<Head(sorted)>> \o InsertByDistance(hit, Tail(sorted))

RECURSIVE SortByDistance(_)
SortByDistance(hits) ==
  IF hits = <<>> THEN <<>>
  ELSE InsertByDistance(hits[Len(hits)], SortByDistance(SubSeq(hits, 1, Len(hits) - 1)))

\* The intersections in the order the objects are tested
RECURSIVE RawHits(_, _)
RawHits(meshes, ndc) ==
  IF meshes = <<>> THEN <<>>
  ELSE (IF RayMeets(Head(meshes), ndc)
        THEN <<[object |-> Head(meshes),
                distance |-> CoreProjection(Head(meshes).userData.sensor).distance]>>
        ELSE <<>>) \o RawHits(Tail(meshes), ndc)

\* Faulty variant of intersectObjects: the intersections are left unsorted
UnsortedHits(meshes, ndc) == RawHits(meshes, ndc)

\* rc.intersectObjects(sensorMeshes): the intersections, nearest first
intersectObjects(meshes, ndc) == SortByDistance(RawHits(meshes, ndc))

\* Faulty variant of HitSensor: the selection is a new record holding the id
HitSensorCopy(hits) ==
  IF Len(hits) > 0 THEN [id |-> hits[1].object.userData.sensor.id] ELSE JsNull
\* hits.length>0 ? hits[0].object.userData.sensor : null   (App.jsx 619)
HitSensor(hits) == IF Len(hits) > 0 THEN hits[1].object.userData.sensor ELSE JsNull
\* hits.length>0 ? hits[0].object.userData.sensor.id : null   (App.jsx 607)
HitId(hits) == IF Len(hits) > 0 THEN hits[1].object.userData.sensor.id ELSE NullId
\* A cursor that never leaves "grab"
GrabCursor(hits) == "grab"
\* hits.length>0 ? "pointer" : "grab"   (App.jsx 608)
HitCursor(hits) == IF Len(hits) > 0 THEN "pointer" ELSE "grab"

----------------------------------------------------------------------------
\* DOM events.  Pointer positions are given relative to the mount div; the
\* event carries client coordinates.
MountLeft == 10
MountTop == 20
PointA == <<2, 6>>        \* on the core of SensorA only
PointB == <<5, 6>>        \* where the cores of SensorA and SensorB overlap
PointE == <<8, 6>>        \* inside the viewer, over empty space
PointO == <<-1, 6>>       \* outside the viewer (left of it)
PointF == <<2, 126>>      \* inside the viewer, far below PointA
InsidePoints == {PointA, PointB, PointE}
AllPoints == InsidePoints \cup {PointO}
OrbitPoints == {PointA, PointB, PointF}

ClientPoint(p) == [clientX |-> MountLeft + p[1], clientY |-> MountTop + p[2]]
MouseEvent(type, p) ==
  [type |-> type, clientX |-> MountLeft + p[1], clientY |-> MountTop + p[2]]
\* touches: the fingers on the screen; changedTouches: the finger this event is about
TouchEvent(type, touches, changed) ==
  [type |-> type, touches |-> touches, changedTouches |-> <<ClientPoint(changed)>>]
HasTouches(e) == "touches" \in DOMAIN e

\* Faulty variant of getXY: the mount's bounding rectangle is ignored
getXYClient(e) ==
  IF HasTouches(e)
  THEN (IF Len(e.touches) > 0 THEN <<e.touches[1].clientX, e.touches[1].clientY>>
        ELSE <<NaN, NaN>>)
  ELSE <<e.clientX, e.clientY>>

\* getXY (App.jsx 577-582)
getXY(e) ==
  LET r == [left |-> MountLeft, top |-> MountTop]
      clientX == IF HasTouches(e)
                 THEN (IF Len(e.touches) > 0 THEN e.touches[1].clientX ELSE NaN)
                 ELSE e.clientX
      clientY == IF HasTouches(e)
                 THEN (IF Len(e.touches) > 0 THEN e.touches[1].clientY ELSE NaN)
                 ELSE e.clientY
  IN <<Sub(clientX, r.left), Sub(clientY, r.top)>>

----------------------------------------------------------------------------
\* Program constants, in the units above
TapThreshold == 6        \* dragDist<6
YawPerPixel == 24        \* dx*0.012
PitchPerPixel == 12      \* dy*0.006
PitchLimit == 1400       \* clamp(..., -0.7, 0.7)
DecayNum == 47           \* 0.94 = 47/50
DecayDen == 50
IdleYawMobile == 3       \* 0.0015
IdleYawDesktop == 5      \* 0.0025
TimeStepMobile == 3      \* 0.024
TimeStepDesktop == 2     \* 0.016
FpsMobile == 30
FpsDesktop == 60

\* Faulty variant of IsTap: every release counts as a tap
AlwaysTap(d) == TRUE

\* dragDist<6 (App.jsx 613)
IsTap(d) == d < TapThreshold

\* Faulty variant of Decay: the velocity is not damped
Undamped(v) == v

\* v*0.94 (App.jsx 651-652); exact when DecayDen divides v
Decay(v) == (v \div DecayDen) * DecayNum
DecayExact(v) == v % DecayDen = 0

\* targetFPS, frameInterval (App.jsx 637-638), in ticks
targetFPS(mobile) == IF mobile THEN FpsMobile ELSE FpsDesktop
frameInterval(mobile) == TicksPerSecond \div targetFPS(mobile)
\* isMobile && currentTime - lastFrameTime < frameInterval (App.jsx 644)
Throttled(mobile, currentTime, last) == mobile /\ currentTime - last < frameInterval(mobile)

----------------------------------------------------------------------------
\* Device profile: isMobile (App.jsx 357) and everything the mount effect
\* derives from it
MobileBreakpoint == 768
PhoneWidth == 400
DesktopWidth == 1024

\* navigator.userAgent, as the sequence of its words
DesktopAgent == <<"Mozilla", "Windows", "Chrome">>
TabletAgent == <<"Mozilla", "iPad", "Safari">>
PhoneAgent == <<"Mozilla", "Linux", "ANDROID">>
Agents == {DesktopAgent, TabletAgent, PhoneAgent}

\* the /i flag of the pattern
LowerCase(word) ==
  CASE word = "iPhone" -> "iphone"
    [] word = "iPad" -> "ipad"
    [] word = "iPod" -> "ipod"
    [] word = "Android" -> "android"
    [] word = "ANDROID" -> "android"
    [] OTHER -> word

\* /iPhone|iPad|iPod|Android/i.test(agent)
HandheldPattern(agent) ==
  \E i \in DOMAIN agent : LowerCase(agent[i]) \in {"iphone", "ipad", "ipod", "android"}

\* Faulty variant of DetectMobile: the user agent is ignored
WidthOnly(width, agent) == width < MobileBreakpoint

\* const isMobile = /.../i.test(navigator.userAgent) || window.innerWidth < 768
DetectMobile(width, agent) == HandheldPattern(agent) \/ width < MobileBreakpoint

\* The constants of the mount effect that depend on isMobile
ResolveProfile(width, agent) ==
  LET mobile == DetectMobile(width, agent) IN
  [isMobile |-> mobile,
   pixelRatioCap |-> IF mobile THEN 12 ELSE 20,       \* App.jsx 358, in tenths
   geometryDetail |-> IF mobile THEN 12 ELSE 24,      \* App.jsx 359
   antialias |-> ~mobile,                             \* App.jsx 363
   gridSize |-> IF mobile THEN 14 ELSE 28,            \* App.jsx 396
   pitot |-> ~mobile,                                 \* App.jsx 426
   windshieldDetail |-> IF mobile THEN 8 ELSE 16,     \* App.jsx 435
   apu |-> ~mobile,                                   \* App.jsx 449
   engineDetail |-> IF mobile THEN 12 ELSE 20,        \* App.jsx 513
   intakeLip |-> ~mobile,                             \* App.jsx 526
   exhaustDetail |-> IF mobile THEN 10 ELSE 16,       \* App.jsx 538
   sensorDetail |-> IF mobile THEN 8 ELSE 14,         \* App.jsx 549
   connectorStub |-> ~mobile,                         \* App.jsx 567
   targetFPS |-> targetFPS(mobile),                   \* App.jsx 637
   frameInterval |-> frameInterval(mobile),           \* App.jsx 638
   timeStep |-> IF mobile THEN TimeStepMobile ELSE TimeStepDesktop,
   idleYaw |-> IF mobile THEN IdleYawMobile ELSE IdleYawDesktop]

\* useIsMobile (App.jsx 5-20): window.innerWidth < 768
useIsMobile(width) == width < MobileBreakpoint

\* The mount div (App.jsx 748-749): height: isMobile ? 380 : 600 of the hook's
\* isMobile; its width is what the page layout gives it
ContainerHeight(mobile) == IF mobile THEN 380 ELSE 600
ColumnWidths == {10, 20}
MountSize(mobile) == <<10, ContainerHeight(mobile)>>

\* Faulty variant of TeardownOps: the canvas is removed without asking
\* whether the mount div still contains it
UnguardedRemove ==
  << [op |-> "cancelAnimationFrame"],
     [op |-> "removeEventListener", target |-> "mount", type |-> "mousedown"],
     [op |-> "removeEventListener", target |-> "window", type |-> "mousemove"],
     [op |-> "removeEventListener", target |-> "window", type |-> "mouseup"],
     [op |-> "removeEventListener", target |-> "mount", type |-> "touchstart"],
     [op |-> "removeEventListener", target |-> "mount", type |-> "touchmove"],
     [op |-> "removeEventListener", target |-> "mount", type |-> "touchend"],
     [op |-> "removeEventListener", target |-> "mount", type |-> "touchcancel"],
     [op |-> "removeEventListener", target |-> "window", type |-> "resize"],
     [op |-> "removeChild", guard |-> "none"],
     [op |-> "dispose"] >>

\* Faulty variant of TeardownOps: the canvas is detached and the renderer
\* disposed first
DisposeFirst ==
  << [op |-> "removeChild", guard |-> "contains"],
     [op |-> "dispose"],
     [op |-> "cancelAnimationFrame"],
     [op |-> "removeEventListener", target |-> "mount", type |-> "mousedown"],
     [op |-> "removeEventListener", target |-> "window", type |-> "mousemove"],
     [op |-> "removeEventListener", target |-> "window", type |-> "mouseup"],
     [op |-> "removeEventListener", target |-> "mount", type |-> "touchstart"],
     [op |-> "removeEventListener", target |-> "mount", type |-> "touchmove"],
     [op |-> "removeEventListener", target |-> "mount", type |-> "touchend"],
     [op |-> "removeEventListener", target |-> "mount", type |-> "touchcancel"],
     [op |-> "removeEventListener", target |-> "window", type |-> "resize"] >>

\* The effect cleanup (App.jsx 676-688), statement by statement
TeardownOps ==
  << [op |-> "cancelAnimationFrame"],
     [op |-> "removeEventListener", target |-> "mount", type |-> "mousedown"],
     [op |-> "removeEventListener", target |-> "window", type |-> "mousemove"],
     [op |-> "removeEventListener", target |-> "window", type |-> "mouseup"],
     [op |-> "removeEventListener", target |-> "mount", type |-> "touchstart"],
     [op |-> "removeEventListener", target |-> "mount", type |-> "touchmove"],
     [op |-> "removeEventListener", target |-> "mount", type |-> "touchend"],
     [op |-> "removeEventListener", target |-> "mount", type |-> "touchcancel"],
     [op |-> "removeEventListener", target |-> "window", type |-> "resize"],
     [op |-> "removeChild", guard |-> "contains"],
     [op |-> "dispose"] >>

\* Listeners registered by the mount effect (App.jsx 624-633, 674)
MountListeners ==
  { <<"mount", "mousedown">>, <<"window", "mousemove">>, <<"window", "mouseup">>,
    <<"mount", "touchstart">>, <<"mount", "touchmove">>, <<"mount", "touchend">>,
    <<"mount", "touchcancel">>, <<"window", "resize">> }

Mounted == tdPc = 0

\* setSelected(v) and the effect that keeps the ref in sync (App.jsx 349, 692):
\* the effect runs when `selected` changed and writes selected?.id
OptionalId(v) == IF v = JsNull THEN Undefined ELSE v.id
\* Faulty variant of setSelected: the ref is not brought in sync
setSelectedOnly(v) ==
  /\ selected' = v
  /\ selectedId' = selectedId
setSelected(v) ==
  /\ selected' = v
  /\ selectedId' = IF v # selected THEN OptionalId(v) ELSE selectedId

\* Faulty variant of onDown: the drag distance is carried over
onDownKeep(e) ==
  /\ isDragging' = TRUE
  /\ dragDist' = dragDist
  /\ lastX' = getXY(e)[1]
  /\ lastY' = getXY(e)[2]
  /\ UNCHANGED <<velX, rotationY, rotationX, selVars, hoverVars>>

\* onDown (App.jsx 584-589)
onDown(e) ==
  /\ isDragging' = TRUE
  /\ dragDist' = 0
  /\ lastX' = getXY(e)[1]
  /\ lastY' = getXY(e)[2]
  /\ UNCHANGED <<velX, rotationY, rotationX, selVars, hoverVars>>

\* Faulty variant of UpdatesHover: every move updates the hover
AlwaysHover(e) == TRUE
\* if(!e.touches) (App.jsx 602)
UpdatesHover(e) == ~HasTouches(e)

\* onMove (App.jsx 590-610)
onMove(e) ==
  LET cx == getXY(e)[1]
      cy == getXY(e)[2]
      dx == Sub(cx, lastX)
      dy == Sub(cy, lastY)
      hits == intersectObjects(sensorMeshes, ToNDC(cx, cy, W, H))
  IN /\ IF isDragging
        THEN /\ dragDist < MaxDragDist
             /\ dragDist' = dragDist + Abs(dx) + Abs(dy)
             /\ rotationY' = rotationY + dx * YawPerPixel * Scale
             /\ Abs(rotationY') <= MaxRotY * Scale
             /\ rotationX' = clamp(rotationX + dy * PitchPerPixel, 0 - PitchLimit, PitchLimit)
             /\ velX' = dx * YawPerPixel * Scale
             /\ lastX' = cx
             /\ lastY' = cy
        ELSE UNCHANGED <<dragDist, rotationY, rotationX, velX, lastX, lastY>>
     /\ IF UpdatesHover(e)
        THEN /\ hoveredId' = HitId(hits)
             /\ cursor' = HitCursor(hits)
        ELSE UNCHANGED hoverVars
     /\ UNCHANGED <<isDragging, selVars>>

\* onUp (App.jsx 611-622)
onUp(e) ==
  LET cx == getXY(e)[1]
      cy == getXY(e)[2]
      hits == intersectObjects(sensorMeshes, ToNDC(cx, cy, W, H))
  IN /\ IF IsTap(dragDist)
        THEN setSelected(HitSensor(hits))
        ELSE UNCHANGED selVars
     /\ isDragging' = FALSE
     /\ UNCHANGED <<dragDist, lastX, lastY, velX, rotationY, rotationX, hoverVars>>

\* What a pointer listener leaves alone
Handled(e) ==
  UNCHANGED <<loopVars, sizeVars, mountVars, tdVars, riskVars>>

\* Listener registrations (App.jsx 624-633)
MouseDown(p) ==
  /\ <<"mount", "mousedown">> \in listeners
  /\ onDown(MouseEvent("mousedown", p))
  /\ Handled(MouseEvent("mousedown", p))
MouseMove(p) ==
  /\ <<"window", "mousemove">> \in listeners
  /\ onMove(MouseEvent("mousemove", p))
  /\ Handled(MouseEvent("mousemove", p))
MouseUp(p) ==
  /\ <<"window", "mouseup">> \in listeners
  /\ onUp(MouseEvent("mouseup", p))
  /\ Handled(MouseEvent("mouseup", p))
TouchStart(touches, p) ==
  /\ <<"mount", "touchstart">> \in listeners
  /\ onDown(TouchEvent("touchstart", touches, p))
  /\ Handled(TouchEvent("touchstart", touches, p))
TouchMove(touches, p) ==
  /\ <<"mount", "touchmove">> \in listeners
  /\ onMove(TouchEvent("touchmove", touches, p))
  /\ Handled(TouchEvent("touchmove", touches, p))
TouchEnd(touches, p) ==
  /\ <<"mount", "touchend">> \in listeners
  /\ onUp(TouchEvent("touchend", touches, p))
  /\ Handled(TouchEvent("touchend", touches, p))
TouchCancel(touches, p) ==
  /\ <<"mount", "touchcancel">> \in listeners
  /\ onUp(TouchEvent("touchcancel", touches, p))
  /\ Handled(TouchEvent("touchcancel", touches, p))

----------------------------------------------------------------------------
\* Animation loop (App.jsx 636-667)
\* Faulty variant of RequestFrame: no callback is scheduled
RequestNone(queue, handle) == queue
\* requestAnimationFrame(animate) (App.jsx 641)
RequestFrame(queue, handle) == queue \cup {handle}
\* Faulty variant of CancelFrame: the request is left pending
KeepFrame(queue, id) == queue
\* cancelAnimationFrame(id)
CancelFrame(queue, id) == queue \ {id}

\* Math.sin for an argument x >= 0 in thousandths of a radian, in thousandths:
\* Bhaskara's rational approximation, within 2 thousandths of the sine
SinMilli(x) ==
  LET pi == 3142
      r == x % (2 * pi)
      h == IF r <= pi THEN r ELSE r - pi
      q == h * (pi - h)
      v == (16 * q) \div ((5 * pi * pi - 4 * q) \div 1000)
  IN IF r <= pi THEN v ELSE 0 - v

\* t*animSpeed + i*0.62 with animSpeed = isMobile ? 1.5 : 2.5 (App.jsx 659-660),
\* for t in units of 0.008 and the marker at (1-based) index i
PulsePhase(time, i, mobile) == time * (IF mobile THEN 12 ELSE 20) + (i - 1) * 620

\* Faulty variant of AmbientScale: the pulse swings by 0.48
WidePulse(s) == 880 + (480 * s) \div 1000
\* 0.88+0.28*sin, 0.5+0.35*sin, 0.08+0.07*sin (App.jsx 660-663)
AmbientScale(s) == 880 + (280 * s) \div 1000
AmbientEmissive(s) == 500 + (350 * s) \div 1000
AmbientOpacity(s) == 80 + (70 * s) \div 1000

\* The fixed values written for a selected and for a hovered marker
\* (App.jsx 661-663), and the values a marker is built with (App.jsx 554, 560)
SelectedLook == [scale |-> 1600, emissive |-> 1300, opacity |-> 380]
HoveredLook == [scale |-> 1300, emissive |-> 1000, opacity |-> 260]
BuiltLook == [scale |-> 1000, emissive |-> 750, opacity |-> 110]

\* The body of sensorMeshes.forEach in animate (App.jsx 655-664), for one marker
MarkerLook(sensor, i, time, mobile, ref) ==
  LET isSel == IdOf(sensor) = ref.selectedId
      isHov == IdOf(sensor) = ref.hoveredId
      s == SinMilli(PulsePhase(time, i, mobile))
  IN [scale |-> IF isSel THEN SelectedLook.scale
                ELSE IF isHov THEN HoveredLook.scale ELSE AmbientScale(s),
      emissive |-> IF isSel THEN SelectedLook.emissive
                   ELSE IF isHov THEN HoveredLook.emissive ELSE AmbientEmissive(s),
      opacity |-> IF isSel THEN SelectedLook.opacity
                  ELSE IF isHov THEN HoveredLook.opacity ELSE AmbientOpacity(s)]

\* Faulty variant of TimeStep: the constrained profile steps by less
TimeStepSmaller(mobile) == IF mobile THEN TimeStepDesktop - 1 ELSE TimeStepDesktop
\* isMobile ? 0.024 : 0.016 (App.jsx 649): what an executed step adds to t
TimeStep(mobile) == IF mobile THEN TimeStepMobile ELSE TimeStepDesktop

\* Faulty variant of YawAdvance: the yaw advances by the velocity before decay
YawAdvanceRaw(v) == v
\* aircraft.rotation.y+=velX*0.94 (App.jsx 651): the amount added to the yaw
YawAdvance(v) == Decay(v)

\* Faulty variant of Spins: the spin is applied during a drag as well
SpinsAlways(dragging) == TRUE
\* if(!isDragging) (App.jsx 650): whether the step applies decay and idle spin
Spins(dragging) == ~dragging

\* animate(currentTime) on the loop's variables l, with the handle the browser
\* returns for requestAnimationFrame(animate); ref is stateRef.current
animate(l, currentTime, mobile, dragging, meshes, ref) ==
  LET handle == l.rafSeq + 1
      l1 == [l EXCEPT !.rafId = handle, !.rafSeq = handle,
                      !.rafQueue = RequestFrame(l.rafQueue, handle)]
      time == l.t + TimeStep(mobile)
  IN IF Throttled(mobile, currentTime, l.lastFrameTime)
     THEN l1
     ELSE [l1 EXCEPT
             !.lastFrameTime = currentTime,
             !.t = time,
             !.drawn = [i \in DOMAIN meshes |->
                          MarkerLook(meshes[i].userData.sensor, i, time, mobile, ref)],
             !.rotationY = IF Spins(dragging)
                           THEN l.rotationY + YawAdvance(l.velX)
                                + (IF mobile THEN IdleYawMobile ELSE IdleYawDesktop) * Scale
                           ELSE l.rotationY,
             !.velX = IF Spins(dragging) THEN Decay(l.velX) ELSE l.velX,
             !.renders = l.renders + 1]

LoopState ==
  [rafId |-> rafId, rafSeq |-> rafSeq, rafQueue |-> rafQueue, t |-> t,
   lastFrameTime |-> lastFrameTime, rotationY |-> rotationY, velX |-> velX,
   renders |-> renders, drawn |-> drawn]

StateRef == [selectedId |-> selectedId, hoveredId |-> hoveredId]

\* Gap between frame callbacks: a 60 Hz display, 2 ticks
FrameDeltas == {TicksPerSecond \div 60}

\* The browser runs a requested frame callback, d ticks after the previous one
Frame(d) ==
  /\ rafSeq < MaxFrames
  /\ Throttled(isMobile, now + d, lastFrameTime) \/ isDragging \/ DecayExact(velX)
  /\ \E id \in rafQueue :
       LET l == animate([LoopState EXCEPT !.rafQueue = rafQueue \ {id}],
                        now + d, isMobile, isDragging, sensorMeshes, StateRef)
       IN /\ rafId' = l.rafId
          /\ rafSeq' = l.rafSeq
          /\ rafQueue' = l.rafQueue
          /\ t' = l.t
          /\ lastFrameTime' = l.lastFrameTime
          /\ rotationY' = l.rotationY
          /\ velX' = l.velX
          /\ renders' = l.renders
          /\ drawn' = l.drawn
  /\ now' = now + d
  /\ UNCHANGED <<isDragging, dragDist, lastX, lastY, rotationX, selVars, hoverVars,
                 sizeVars, mountVars, tdVars, riskVars>>

\* onResize (App.jsx 669-673) when the mount div measures `size`
onResize(size) ==
  /\ cameraAspect' = <<size[1], size[2]>>
  /\ rendererSize' = <<size[1], size[2]>>

\* Faulty variant of Resize: the profile is resolved again for the new width
ResizeReprofiles(cw, width) ==
  /\ <<"window", "resize">> \in listeners
  /\ innerWidth' = width
  /\ onResize(<<cw, container[2]>>)
  /\ uiMobile' = useIsMobile(width)
  /\ container' = <<cw, ContainerHeight(uiMobile')>>
  /\ profile' = ResolveProfile(width, userAgent)
  /\ isMobile' = profile'.isMobile
  /\ UNCHANGED <<sensors, sensorMeshes, W, H, userAgent, widthAtMount>>
  /\ UNCHANGED <<orbitVars, selVars, hoverVars, loopVars, tdVars, riskVars>>

\* The window is resized to `width` and the layout makes the mount div cw
\* wide.  The resize listeners run in the order they were registered: onResize
\* of the mount effect (App.jsx 674), then handleResize of useIsMobile
\* (App.jsx 12-15, called at 695), whose new state re-renders the mount div
\* with the height of App.jsx 749.
Resize(cw, width) ==
  /\ <<"window", "resize">> \in listeners
  /\ innerWidth' = width
  /\ onResize(<<cw, container[2]>>)
  /\ uiMobile' = useIsMobile(width)
  /\ container' = <<cw, ContainerHeight(uiMobile')>>
  /\ UNCHANGED <<orbitVars, selVars, hoverVars, loopVars, mountVars, tdVars, riskVars>>

\* onResize run after the cleanup, by a caller that still holds it: the mount
\* div then measures `size`
LateSizes == {<<0, 0>>, <<20, 600>>}
LateResize(size) ==
  /\ ~Mounted
  /\ onResize(size)
  /\ UNCHANGED <<container, innerWidth, uiMobile>>
  /\ UNCHANGED <<orbitVars, selVars, hoverVars, loopVars, mountVars, tdVars, riskVars>>

\* Sensor list row onClick (App.jsx 809); the list shows while nothing is selected
ListClick(i) ==
  /\ Mounted
  /\ selected = JsNull
  /\ setSelected(sensors[i])
  /\ UNCHANGED <<orbitVars, hoverVars, loopVars, sizeVars, mountVars, tdVars, riskVars>>

\* The detail panel's close button (App.jsx 768)
ClearSelection ==
  /\ Mounted
  /\ selected # JsNull
  /\ setSelected(JsNull)
  /\ UNCHANGED <<orbitVars, hoverVars, loopVars, sizeVars, mountVars, tdVars, riskVars>>

\* One statement of the effect cleanup, on the record c of what it touches;
\* c.log keeps, per statement, what was still registered and requested when it ran
ApplyTeardownOp(c, op) ==
  LET c1 == [c EXCEPT !.log = Append(c.log, [op |-> op, listeners |-> c.listeners,
                                             rafQueue |-> c.rafQueue])]
  IN IF op.op = "cancelAnimationFrame"
     THEN [c1 EXCEPT !.rafQueue = CancelFrame(c.rafQueue, c.rafId)]
     ELSE IF op.op = "removeEventListener"
     THEN [c1 EXCEPT !.listeners = c.listeners \ {<<op.target, op.type>>}]
     ELSE IF op.op = "removeChild"
     THEN (IF c.canvasAttached THEN [c1 EXCEPT !.canvasAttached = FALSE]
           ELSE IF op.guard = "contains" THEN c1
           ELSE [c1 EXCEPT !.raised = "cleanup"])  \* removeChild: NotFoundError
     ELSE [c1 EXCEPT !.disposed = TRUE]

\* The statements in order; an exception ends the cleanup
RECURSIVE RunTeardown(_, _)
RunTeardown(c, ops) ==
  IF ops = <<>> \/ c.raised # "none" THEN c
  ELSE RunTeardown(ApplyTeardownOp(c, Head(ops)), Tail(ops))

\* The cleanup function returned by the mount effect (App.jsx 676-688)
RunCleanup ==
  /\ LET c == RunTeardown([rafQueue |-> rafQueue, rafId |-> rafId,
                           listeners |-> listeners, canvasAttached |-> canvasAttached,
                           disposed |-> disposed, raised |-> "none", log |-> <<>>],
                          TeardownOps)
     IN /\ rafQueue' = c.rafQueue
        /\ listeners' = c.listeners
        /\ canvasAttached' = c.canvasAttached
        /\ disposed' = c.disposed
        /\ raised' = c.raised
        /\ tdLog' = c.log
  /\ tdPc' = tdPc + 1
  /\ rendersAtTeardown' = renders
  /\ UNCHANGED <<orbitVars, selVars, hoverVars, rafId, rafSeq, t, lastFrameTime, now,
                 renders, drawn, sizeVars, mountVars, riskVars>>

\* React runs the effect cleanup when the viewer unmounts
Cleanup ==
  /\ Mounted
  /\ raised = "none"
  /\ RunCleanup

\* The cleanup function invoked once more
MaxCleanups == 2
CleanupAgain ==
  /\ ~Mounted
  /\ tdPc < MaxCleanups
  /\ RunCleanup

----------------------------------------------------------------------------
\* Risk display sites outside the helpers
\* FLEET SENSOR SUMMARY counters (App.jsx 833-835): list.filter(test).length
FleetNominal(r) == r < 30
\* Faulty variant of FleetWatch: 30 is counted in no band
FleetWatchExclusive(r) == r > 30 /\ r < 60
FleetWatch(r) == r >= 30 /\ r < 60
FleetCritical(r) == r >= 60
FleetSummary(list) ==
  [NOMINAL |-> Cardinality({i \in DOMAIN list : FleetNominal(list[i])}),
   WATCH |-> Cardinality({i \in DOMAIN list : FleetWatch(list[i])}),
   CRITICAL |-> Cardinality({i \in DOMAIN list : FleetCritical(list[i])})]
\* Dashboard subsystem counts (App.jsx 1461)
DashNominal(r) == r < 30
DashWatch(r) == r >= 30 /\ r < 60
DashCritical(r) == r >= 60
DashboardCounts(list) ==
  << Cardinality({i \in DOMAIN list : DashNominal(list[i])}),
     Cardinality({i \in DOMAIN list : DashWatch(list[i])}),
     Cardinality({i \in DOMAIN list : DashCritical(list[i])}) >>
\* Scheduling tag (App.jsx 1668)
ScheduleTag(r) == IF r < 30 THEN "LOW" ELSE IF r < 60 THEN "MED" ELSE "HIGH"

\* What a render shows for the risk scores in `list`
RiskDisplay(list) ==
  [rendered |-> TRUE,
   tint |-> [i \in DOMAIN list |-> RISK_COLOR_HEX(list[i])],
   color |-> [i \in DOMAIN list |-> RISK_COLOR(list[i])],
   label |-> [i \in DOMAIN list |-> RISK_LABEL(list[i])],
   tag |-> [i \in DOMAIN list |-> ScheduleTag(list[i])],
   fleet |-> FleetSummary(list),
   dash |-> DashboardCounts(list)]

\* Scores displayed: every score on its own, and lists of up to MaxRecords
\* scores within EdgeWindow of a band edge or of an end of the range
MaxRecords == 2
EdgeWindow == 2
RiskScores == 0 .. 99
EdgeScores == {r \in RiskScores : \E e \in {0, 30, 60, 99} : r - e \in 0 - EdgeWindow .. EdgeWindow}
RiskLists == [1 .. 1 -> RiskScores] \cup UNION {[1 .. n -> EdgeScores] : n \in 0 .. MaxRecords}

RenderRisk ==
  /\ riskView' = RiskDisplay(risk)
  /\ UNCHANGED risk
\* The 2 s timer of the dashboard (App.jsx 1349-1351): every score drifts
TickRisk(drift) ==
  /\ risk' = [i \in DOMAIN risk |-> clamp(risk[i] + drift[i], 0, 99)]
  /\ risk' \in RiskLists
  /\ riskView' = RiskDisplay(risk')

----------------------------------------------------------------------------
\* The loop as the mount effect leaves it (App.jsx 636-667): animate(0) has run,
\* before the effect of App.jsx 692 has replaced the null of stateRef
InitLoop(mobile, meshes) ==
  animate([rafId |-> 0, rafSeq |-> 0, rafQueue |-> {}, t |-> 0, lastFrameTime |-> 0,
           rotationY |-> 0, velX |-> 0, renders |-> 0,
           drawn |-> [i \in DOMAIN meshes |-> BuiltLook]],
          0, mobile, FALSE, meshes, [selectedId |-> NullId, hoveredId |-> NullId])

\* The loop after k more executed steps with the pointer away, no velocity
\* left and nothing selected or hovered: what k applications of animate to l
\* add up to.  Handles and timestamps are counted from there.
RunFrames(l, k, mobile, meshes) ==
  LET time == l.t + k * TimeStep(mobile)
  IN [l EXCEPT
        !.rafId = 1, !.rafSeq = 1, !.rafQueue = {1}, !.lastFrameTime = 0,
        !.t = time,
        !.rotationY = l.rotationY
                      + k * (IF mobile THEN IdleYawMobile ELSE IdleYawDesktop) * Scale,
        !.renders = l.renders + k,
        !.drawn = [i \in DOMAIN meshes |->
                     MarkerLook(meshes[i].userData.sensor, i, time, mobile,
                                [selectedId |-> Undefined, hoveredId |-> NullId])]]

\* The loop when observation starts, `steps` executed steps after the mount
StartLoop(mobile, meshes, steps) ==
  IF steps = 0 THEN InitLoop(mobile, meshes)
  ELSE RunFrames(InitLoop(mobile, meshes), steps, mobile, meshes)

\* The loop variables when the mount effect raised before reaching them
NoLoop(meshes) ==
  [rafId |-> 0, rafSeq |-> 0, rafQueue |-> {}, t |-> 0, lastFrameTime |-> 0,
   rotationY |-> 0, velX |-> 0, renders |-> 0,
   drawn |-> [i \in DOMAIN meshes |-> BuiltLook]]

\* The state the mount effect leaves (App.jsx 351-674) for the sensor list, the
\* window width and the user agent it finds.  When the sensor nodes raise, the
\* effect ends there: the canvas is attached, nothing is registered or requested.
Mount(list, width, agent, steps) ==
  LET mobile == DetectMobile(width, agent)
      ok == ~ForEachThrows(list)
      meshes == BuildCores(list)
      loop == IF ok THEN StartLoop(mobile, meshes, steps) ELSE NoLoop(meshes)
      size == MountSize(useIsMobile(width))
  IN
  /\ sensors = list
  /\ sensorMeshes = meshes
  /\ isMobile = mobile
  /\ userAgent = agent
  /\ widthAtMount = width
  /\ innerWidth = width
  /\ uiMobile = useIsMobile(width)
  /\ profile = ResolveProfile(width, agent)
  /\ W = size[1] /\ H = size[2]
  /\ container = size
  /\ cameraAspect = <<size[1], size[2]>>
  /\ rendererSize = size
  /\ cursor = "grab"
  /\ listeners = IF ok THEN MountListeners ELSE {}
  /\ raised = IF ok THEN "none" ELSE "mount"
  /\ canvasAttached = TRUE /\ disposed = FALSE
  /\ isDragging = FALSE /\ dragDist = 0 /\ lastX = 0 /\ lastY = 0
  /\ rotationX = 0
  /\ selected = JsNull /\ selectedId = Undefined /\ hoveredId = NullId
  /\ rafId = loop.rafId
  /\ rafSeq = loop.rafSeq
  /\ rafQueue = loop.rafQueue
  /\ t = loop.t
  /\ lastFrameTime = loop.lastFrameTime
  /\ rotationY = loop.rotationY
  /\ velX = loop.velX
  /\ renders = loop.renders
  /\ drawn = loop.drawn
  /\ now = 0
  /\ rendersAtTeardown = 0
  /\ tdPc = 0 /\ tdLog = <<>>
  /\ idleFrom = 0 /\ idleSteps = 0

\* The fingers still on the screen when the finger at p lifts: none, or a second
\* finger resting on SecondFinger
SecondFinger == PointB
TouchLists(p) == {<<>>} \cup {<<ClientPoint(q)>> : q \in {SecondFinger} \ {p}}

\* The history of the idle spin, read off the step: a release is the step
\* that ends a drag, an executed animation step is one that renders
IdleHistory ==
  /\ idleFrom' = IF isDragging /\ ~isDragging' THEN velX ELSE idleFrom
  /\ idleSteps' = IF isDragging /\ ~isDragging' THEN 0
                  ELSE IF renders' # renders /\ ~isDragging THEN idleSteps + 1
                  ELSE idleSteps
NoHistory == UNCHANGED idleVars

Init ==
  /\ \E agent \in {DesktopAgent, TabletAgent} :
       Mount(<<SensorA, SensorB>>, DesktopWidth, agent, 0)
  /\ risk = <<>>
  /\ riskView = RiskDisplay(<<>>)

\* The viewer with two markers: selection and hover.  The pointer is pressed
\* inside the viewer and moved or released anywhere.  e.touches[0] is the
\* finger the event is about, except that a touchend/touchcancel lists only the
\* fingers still down.  The animation loop is left to SpecOrbit: it writes
\* nothing that selection, hover or the drag distance are computed from.
Next ==
  \/ \E p \in InsidePoints : MouseDown(p) /\ NoHistory
  \/ \E p \in AllPoints : MouseMove(p) /\ NoHistory
  \/ \E p \in AllPoints : MouseUp(p) /\ NoHistory
  \/ \E p \in InsidePoints : TouchStart(<<ClientPoint(p)>>, p) /\ NoHistory
  \/ \E p \in AllPoints : TouchMove(<<ClientPoint(p)>>, p) /\ NoHistory
  \/ \E p \in AllPoints : \E ts \in TouchLists(p) : TouchEnd(ts, p) /\ NoHistory
  \/ \E p \in AllPoints : \E ts \in TouchLists(p) : TouchCancel(ts, p) /\ NoHistory
  \/ \E cw \in ColumnWidths : Resize(cw, DesktopWidth) /\ NoHistory
  \/ Cleanup /\ NoHistory
  \/ \E i \in DOMAIN sensors : ListClick(i) /\ NoHistory
  \/ ClearSelection /\ NoHistory

Spec == Init /\ [][Next]_vars

\* The orbit, the animation loop and the teardown: a viewer without markers,
\* dragged far enough to pitch, animated, resized and torn down, with the
\* history of the idle spin recorded
InitOrbit ==
  /\ \E agent \in {DesktopAgent, TabletAgent} : Mount(<<>>, DesktopWidth, agent, 0)
  /\ risk = <<>>
  /\ riskView = RiskDisplay(<<>>)

NextOrbit ==
  \/ \E p \in OrbitPoints : MouseDown(p) /\ IdleHistory
  \/ \E p \in OrbitPoints : MouseMove(p) /\ IdleHistory
  \/ \E p \in OrbitPoints : MouseUp(p) /\ IdleHistory
  \/ \E p \in OrbitPoints : TouchStart(<<ClientPoint(p)>>, p) /\ IdleHistory
  \/ \E p \in OrbitPoints : TouchMove(<<ClientPoint(p)>>, p) /\ IdleHistory
  \/ \E p \in OrbitPoints : \E ts \in TouchLists(p) : TouchEnd(ts, p) /\ IdleHistory
  \/ \E p \in OrbitPoints : \E ts \in TouchLists(p) : TouchCancel(ts, p) /\ IdleHistory
  \/ \E d \in FrameDeltas : Frame(d) /\ IdleHistory
  \/ \E cw \in ColumnWidths : Resize(cw, DesktopWidth) /\ IdleHistory
  \/ Cleanup /\ IdleHistory

SpecOrbit == InitOrbit /\ [][NextOrbit]_vars

\* The risk display on its own: scores rendered and drifting, the viewer idle
InitRisk ==
  /\ Mount(<<SensorA, SensorB>>, DesktopWidth, DesktopAgent, 0)
  /\ risk \in RiskLists
  /\ riskView = [rendered |-> FALSE]

ViewerIdle ==
  UNCHANGED <<orbitVars, selVars, hoverVars, loopVars, sizeVars, mountVars, tdVars,
              idleVars>>

NextRisk ==
  \/ RenderRisk /\ ViewerIdle
  \/ \E drift \in [DOMAIN risk -> -2 .. 2] : TickRisk(drift) /\ ViewerIdle

SpecRisk == InitRisk /\ [][NextRisk]_vars

\* The life of a mount: the sensor list, the window width and the user agent
\* the mount effect finds, frame callbacks of a 60 Hz and of a 120 Hz display,
\* window resizes across the breakpoint, the cleanup, and the cleanup function
\* and the resize handler called once the cleanup has run
NoPosition == [id |-> "apu1", subsystem |-> "apu", risk |-> 12]
NoId == [subsystem |-> "hyd", pos |-> <<3, -2, 10>>, risk |-> 25]
SensorLists ==
  { <<SensorA, SensorB>>, <<SensorA, NoPosition, SensorB>>, <<NoId, SensorB>> }
Widths == {PhoneWidth, MobileBreakpoint - 1, MobileBreakpoint, DesktopWidth}
DisplayDeltas == {TicksPerSecond \div 120, TicksPerSecond \div 60}

InitLife ==
  /\ \E list \in SensorLists : \E width \in Widths : \E agent \in Agents :
       Mount(list, width, agent, 0)
  /\ risk = <<>>
  /\ riskView = RiskDisplay(<<>>)

NextLife ==
  \/ \E d \in DisplayDeltas : Frame(d) /\ NoHistory
  \/ \E cw \in ColumnWidths : \E width \in {PhoneWidth, DesktopWidth} :
       Resize(cw, width) /\ NoHistory
  \/ Cleanup /\ NoHistory
  \/ CleanupAgain /\ NoHistory
  \/ \E size \in LateSizes : LateResize(size) /\ NoHistory

SpecLife == InitLife /\ [][NextLife]_vars

\* The marker layer: the viewer mounted on no sensor, on one and on two in
\* either order, tapped and hovered with the mouse, tapped with a finger, and
\* its sensor list and close button clicked
MarkerLists == {<<>>, <<SensorA>>, <<SensorA, SensorB>>, <<SensorB, SensorA>>}

InitMarkers ==
  /\ \E list \in MarkerLists : Mount(list, DesktopWidth, DesktopAgent, 0)
  /\ risk = <<>>
  /\ riskView = RiskDisplay(<<>>)

NextMarkers ==
  \/ \E p \in InsidePoints : MouseDown(p) /\ NoHistory
  \/ \E p \in AllPoints : MouseMove(p) /\ NoHistory
  \/ \E p \in AllPoints : MouseUp(p) /\ NoHistory
  \/ \E p \in InsidePoints : TouchStart(<<ClientPoint(p)>>, p) /\ NoHistory
  \/ \E p \in AllPoints : \E ts \in TouchLists(p) : TouchEnd(ts, p) /\ NoHistory
  \/ \E i \in DOMAIN sensors : ListClick(i) /\ NoHistory
  \/ ClearSelection /\ NoHistory

SpecMarkers == InitMarkers /\ [][NextMarkers]_vars

\* The marker tiers: two markers, taps and hover moves of the mouse, the
\* sensor list and the close button, and the animation loop, observed from
\* different moments of the pulse
StartSteps == {0, 39, 118}

InitTiers ==
  /\ \E agent \in {DesktopAgent, TabletAgent} : \E steps \in StartSteps :
       Mount(<<SensorA, SensorB>>, DesktopWidth, agent, steps)
  /\ risk = <<>>
  /\ riskView = RiskDisplay(<<>>)

NextTiers ==
  \/ \E p \in InsidePoints : MouseDown(p) /\ NoHistory
  \/ \E p \in InsidePoints : ~isDragging /\ MouseMove(p) /\ NoHistory
  \/ \E p \in InsidePoints : MouseUp(p) /\ NoHistory
  \/ \E i \in DOMAIN sensors : ListClick(i) /\ NoHistory
  \/ ClearSelection /\ NoHistory
  \/ \E d \in FrameDeltas : Frame(d) /\ NoHistory

SpecTiers == InitTiers /\ [][NextTiers]_vars

----------------------------------------------------------------------------
\* Properties

\* The cores the ray through point p of the viewer meets, as indices of
\* sensorMeshes, and the one it meets nearest to its origin
MetAt(p) ==
  {i \in DOMAIN sensorMeshes : RayMeets(sensorMeshes[i], ToNDC(p[1], p[2], W, H))}
DistanceOf(i) == CoreProjection(sensorMeshes[i].userData.sensor).distance
NearestAt(p) ==
  CHOOSE i \in MetAt(p) :
    \A j \in MetAt(p) : DistanceOf(i) < DistanceOf(j) \/ (DistanceOf(i) = DistanceOf(j) /\ i <= j)
FirstMet(p) == sensorMeshes[NearestAt(p)].userData.sensor

\* C1: a mouse gesture begun by a mouse-down and released with an accumulated
\* move distance below the tap threshold selects the sensor of the marker that
\* the ray from the release point meets first (selectedId becomes its id), and
\* selects nothing when the ray meets no marker.
C1_MouseTapSelects ==
  [][(isDragging /\ ~isDragging' /\ dragDist < TapThreshold) =>
       \A p \in AllPoints :
         MouseUp(p) =>
           IF MetAt(p) = {}
           THEN selected' = JsNull /\ selectedId' = Undefined
           ELSE selected' = FirstMet(p) /\ selectedId' = FirstMet(p).id]_vars

\* C1 happens: the mouse was pressed on SensorB, moved 3 px onto SensorA and
\* released there, and SensorA is selected
C1_TapOnMarker ==
  /\ ~isDragging /\ dragDist = 3 /\ lastX = PointA[1]
  /\ hoveredId = SensorA.id
  /\ selected = SensorA /\ selectedId = SensorA.id

PointerPressOrMove ==
  \E p \in AllPoints :
    \/ MouseDown(p) \/ MouseMove(p)
    \/ TouchStart(<<ClientPoint(p)>>, p) \/ TouchMove(<<ClientPoint(p)>>, p)
PointerRelease ==
  \E p \in AllPoints :
    \/ MouseUp(p)
    \/ \E ts \in TouchLists(p) : TouchEnd(ts, p) \/ TouchCancel(ts, p)

\* C2: a drag never changes the selection: no step that changes selected or
\* selectedId is a press or a move (mouse or touch), nor a release whose
\* accumulated move distance exceeds the tap threshold, wherever it happens.
C2_DragKeepsSelection ==
  [][selVars' # selVars =>
       /\ ~PointerPressOrMove
       /\ ~(dragDist > TapThreshold /\ PointerRelease)]_vars

\* C2 happens: a drag of more than the threshold has been released while
\* SensorA was selected and the mouse was over SensorB
C2_DragReleased ==
  /\ ~isDragging /\ dragDist > TapThreshold
  /\ hoveredId = SensorB.id
  /\ selected = SensorA /\ selectedId = SensorA.id

\* C3: a touch gesture released with an accumulated move distance below the
\* tap threshold selects the sensor of the marker that the ray from the point
\* where the finger was lifted meets first, as a mouse click there would.
C3_TouchTapSelects ==
  [][\A p \in AllPoints : \A ts \in TouchLists(p) :
       (isDragging /\ dragDist < TapThreshold /\ MetAt(p) # {} /\ TouchEnd(ts, p)) =>
         selected' = FirstMet(p) /\ selectedId' = FirstMet(p).id]_vars

\* C4: rotation.x stays within [-0.7, 0.7] in every reachable state.
C4_PitchClamped == rotationX >= 0 - PitchLimit /\ rotationX <= PitchLimit

\* C4 happens: a drag far enough down has pitched the aircraft to the limit
C4_PitchAtLimit == rotationX = PitchLimit /\ dragDist > TapThreshold

Sign(v) == IF v > 0 THEN 1 ELSE IF v < 0 THEN 0 - 1 ELSE 0

\* C5: with the pointer up, after n animation steps executed since the drag
\* was released with velocity v0, velX = v0 * 0.94^n; its magnitude is at
\* most that of v0 and its sign is not reversed.
C5_IdleDecay ==
  ~isDragging =>
    /\ idleFrom % Pow(DecayDen, idleSteps) = 0
    /\ velX = (idleFrom \div Pow(DecayDen, idleSteps)) * Pow(DecayNum, idleSteps)
    /\ Abs(velX) <= Abs(idleFrom)
    /\ Sign(velX) = Sign(idleFrom)

\* C5 happens: a drag was released spinning and two animation steps have
\* run since
C5_TwoIdleSteps == ~isDragging /\ idleFrom # 0 /\ idleSteps = 2

\* C6: when the ray through the pointer meets the cores of several markers,
\* the hover (mouse move) and the tap selection (release below the tap
\* threshold) both take the marker met nearest to the ray origin.
C6_NearestHitWins ==
  [][\A q \in AllPoints :
       /\ (isDragging' = isDragging /\ MouseMove(q)) =>
            (Cardinality(MetAt(q)) > 1 => hoveredId' = FirstMet(q).id)
       /\ (dragDist < TapThreshold /\ ~isDragging'
             /\ (MouseUp(q) \/ TouchEnd(<<ClientPoint(q)>>, q)
                 \/ TouchCancel(<<ClientPoint(q)>>, q))) =>
            (Cardinality(MetAt(q)) > 1 => selected' = FirstMet(q))]_vars

\* C6 happens: the pointer is over the overlap of SensorA (distance 15) and
\* SensorB (distance 12) and a tap there has selected SensorB
C6_OverlapTapped ==
  /\ ~isDragging /\ dragDist < TapThreshold /\ lastX = PointB[1]
  /\ hoveredId = SensorB.id /\ selected = SensorB
  /\ Cardinality(MetAt(PointB)) = 2

BandOf(r) == IF r < 30 THEN 1 ELSE IF r < 60 THEN 2 ELSE 3
LabelBand(l) == IF l = "NOMINAL" THEN 1 ELSE IF l = "WATCH" THEN 2 ELSE IF l = "CRITICAL" THEN 3 ELSE 0
ColorBand(c) == IF c = "#00e5c0" THEN 1 ELSE IF c = "#f5a623" THEN 2 ELSE IF c = "#ff3b5c" THEN 3 ELSE 0
TintBand(c) == IF c = "0x00e5c0" THEN 1 ELSE IF c = "0xf5a623" THEN 2 ELSE IF c = "0xff3b5c" THEN 3 ELSE 0
TagBand(g) == IF g = "LOW" THEN 1 ELSE IF g = "MED" THEN 2 ELSE IF g = "HIGH" THEN 3 ELSE 0

\* C7: every displayed score r in 0..99 is classified nominal iff r < 30,
\* watch iff 30 <= r < 60 and critical iff r >= 60 by RISK_LABEL, RISK_COLOR
\* and RISK_COLOR_HEX; each score gets exactly one of the three bands, and the
\* band does not go down as the score goes up.
C7_RiskBands ==
  riskView.rendered =>
    /\ \A i \in DOMAIN risk :
         /\ risk[i] \in 0 .. 99
         /\ riskView.label[i] = "NOMINAL" <=> risk[i] < 30
         /\ riskView.label[i] = "WATCH" <=> (risk[i] >= 30 /\ risk[i] < 60)
         /\ riskView.label[i] = "CRITICAL" <=> risk[i] >= 60
         /\ LabelBand(riskView.label[i]) \in 1 .. 3
         /\ ColorBand(riskView.color[i]) = BandOf(risk[i])
         /\ TintBand(riskView.tint[i]) = BandOf(risk[i])
    /\ \A i, j \in DOMAIN risk :
         risk[i] <= risk[j] => LabelBand(riskView.label[i]) <= LabelBand(riskView.label[j])

\* C7 happens: a watch score at the lower edge and a critical score at its
\* lower edge are displayed together
C7_EdgesDisplayed ==
  /\ riskView.rendered /\ Len(risk) = 2 /\ risk[1] = 30 /\ risk[2] = 60
  /\ riskView.label = <<"WATCH", "CRITICAL">>

\* C8: wherever risk is displayed the same band is shown: marker tint, UI
\* colour, label and scheduling tag of a score agree, the fleet summary and
\* the dashboard count each score in exactly that band, and the three counts
\* add up to the number of records.
C8_ConsistentDisplay ==
  riskView.rendered =>
    /\ \A i \in DOMAIN risk :
         /\ TintBand(riskView.tint[i]) = LabelBand(riskView.label[i])
         /\ ColorBand(riskView.color[i]) = LabelBand(riskView.label[i])
         /\ TagBand(riskView.tag[i]) = LabelBand(riskView.label[i])
         /\ LabelBand(riskView.label[i]) # 0
    /\ riskView.fleet.NOMINAL = Cardinality({i \in DOMAIN risk : riskView.label[i] = "NOMINAL"})
    /\ riskView.fleet.WATCH = Cardinality({i \in DOMAIN risk : riskView.label[i] = "WATCH"})
    /\ riskView.fleet.CRITICAL = Cardinality({i \in DOMAIN risk : riskView.label[i] = "CRITICAL"})
    /\ riskView.dash = <<riskView.fleet.NOMINAL, riskView.fleet.WATCH, riskView.fleet.CRITICAL>>
    /\ riskView.fleet.NOMINAL + riskView.fleet.WATCH + riskView.fleet.CRITICAL = Len(risk)

\* C8 happens: two records on either side of the nominal/watch edge are
\* displayed and counted
C8_EdgeCounted ==
  /\ riskView.rendered /\ Len(risk) = 2 /\ risk[1] = 29 /\ risk[2] = 30
  /\ riskView.fleet.NOMINAL = 1 /\ riskView.fleet.WATCH = 1

\* C9: once the effect cleanup has run, no frame callback is pending and
\* renderer.render is not called again: the render count stays what it was
\* when the cleanup ran.
C9_NoFrameAfterTeardown ==
  tdPc > 0 => rafQueue = {} /\ renders = rendersAtTeardown

\* C9 happens: the cleanup ran after frames had been rendered, with a frame
\* callback pending
C9_TornDownWhilePending ==
  /\ tdPc > 0 /\ renders > 1
  /\ tdLog[1].op.op = "cancelAnimationFrame" /\ tdLog[1].rafQueue # {}

IsRelease(entry) == entry.op.op \in {"removeChild", "dispose"}

\* C10: the cleanup cancels the pending frame request and removes each of the
\* eight listeners registered at mount before it detaches the canvas and
\* disposes the renderer; after it none of those listeners is registered.
C10_TeardownOrder ==
  tdPc > 0 =>
    /\ \A i \in DOMAIN tdLog :
         IsRelease(tdLog[i]) =>
           /\ tdLog[i].listeners \cap MountListeners = {}
           /\ tdLog[i].rafQueue = {}
           /\ \E j \in 1 .. i - 1 : tdLog[j].op.op = "cancelAnimationFrame"
    /\ \E i \in DOMAIN tdLog : tdLog[i].op.op = "removeChild"
    /\ \E i \in DOMAIN tdLog : tdLog[i].op.op = "dispose"
    /\ listeners \cap MountListeners = {}
    /\ ~canvasAttached /\ disposed

\* C10 happens: the cleanup has run to its end on a viewer with all eight
\* listeners registered
C10_TornDown ==
  /\ tdPc > 0 /\ disposed /\ Len(tdLog) = Len(TeardownOps)
  /\ tdLog[1].listeners = MountListeners

\* C11: invoking the cleanup function a second time raises no exception,
\* renders no frame and leaves everything as the first run left it: no
\* listener registered, no frame request pending, the canvas detached, the
\* renderer disposed.
C11_TeardownIdempotent ==
  [][tdPc >= 1 /\ tdPc' = tdPc + 1 =>
       /\ raised' = "none"
       /\ renders' = renders
       /\ listeners' = {} /\ listeners = {}
       /\ rafQueue' = {} /\ rafQueue = {}
       /\ canvasAttached' = canvasAttached /\ disposed' = disposed
       /\ UNCHANGED <<orbitVars, selVars, hoverVars, sizeVars, mountVars, riskVars,
                      rafId, rafSeq, t, lastFrameTime, now, drawn>>]_vars

\* C11 happens: the cleanup function has run twice, each time to its end, on a
\* viewer that had rendered
C11_TornDownTwice ==
  /\ tdPc = 2 /\ renders > 0 /\ raised = "none"
  /\ Len(tdLog) = Len(TeardownOps) /\ tdLog[1].listeners = {}

\* C12: once the cleanup has run, a call of the resize handler is a no-op: it
\* changes neither the camera aspect nor the renderer size, raises no
\* exception and renders nothing.
C12_LateResizeIgnored ==
  [][tdPc > 0 =>
       /\ cameraAspect' = cameraAspect /\ rendererSize' = rendererSize
       /\ raised' = raised /\ renders' = renders]_vars

\* C13: on either profile an animation step executes only when at least the
\* profile's frame interval has passed since the previous executed step.
C13_FrameRateGated ==
  [][renders' # renders => now' - lastFrameTime >= frameInterval(isMobile)]_vars

C15_ProfileRule ==
  LET constrained == widthAtMount < 768 \/ HandheldPattern(userAgent) IN
  /\ isMobile = constrained /\ profile.isMobile = constrained
  /\ profile = ResolveProfile(widthAtMount, userAgent)
  /\ profile.geometryDetail = (IF constrained THEN 12 ELSE 24)
  /\ profile.targetFPS = (IF constrained THEN 30 ELSE 60)
  /\ profile.frameInterval = TicksPerSecond \div (IF constrained THEN 30 ELSE 60)
  /\ profile.pitot = ~constrained /\ profile.apu = ~constrained
  /\ profile.intakeLip = ~constrained /\ profile.connectorStub = ~constrained
  /\ widthAtMount = PhoneWidth => constrained

\* C15 happens: a handheld agent in a wide window got the constrained profile
\* and the loop ran with it
C15_WideHandheld ==
  /\ widthAtMount >= MobileBreakpoint /\ HandheldPattern(userAgent)
  /\ profile.isMobile /\ profile.geometryDetail = 12 /\ rafSeq > 1

\* C16: no step after the mount changes the profile: the isMobile of the mount
\* effect and everything derived from it stay what they were, also when a
\* resize takes the window across the breakpoint.
C16_ProfileImmutable ==
  [][profile' = profile /\ isMobile' = isMobile]_vars

\* C16 happens: the window has been resized across the breakpoint, in one
\* direction or the other, and the profile is still the one resolved at mount
C16_CrossedBreakpoint ==
  /\ tdPc = 0 /\ raised = "none"
  /\ useIsMobile(innerWidth) # useIsMobile(widthAtMount)
  /\ uiMobile = useIsMobile(innerWidth)
  /\ profile = ResolveProfile(widthAtMount, userAgent)

WellFormed(sensor) == HasPos(sensor) /\ "id" \in DOMAIN sensor

\* C17: whatever records of the sensor list lack a position or an id, the
\* mount effect builds a marker for each well-formed record and for no other,
\* and finishes: the listeners are registered and a frame is requested.
C17_MalformedSkipped ==
  tdPc = 0 =>
    /\ raised = "none"
    /\ listeners = MountListeners /\ rafQueue # {}
    /\ [i \in DOMAIN sensorMeshes |-> sensorMeshes[i].userData.sensor]
         = SelectSeq(sensors, WellFormed)

\* C18: at every executed animation step a marker that is selected gets the
\* selected values, hovered or not; one that is hovered and not selected gets
\* the hovered values; any other gets ambient values, each strictly below the
\* hovered value, which is strictly below the selected value.
C18_TiersDominate ==
  [][renders' # renders =>
       \A i \in DOMAIN drawn' :
         LET id == IdOf(sensors[i])
             look == drawn'[i]
         IN /\ id = selectedId => look = SelectedLook
            /\ id # selectedId /\ id = hoveredId => look = HoveredLook
            /\ id # selectedId /\ id # hoveredId =>
                 /\ look.scale < HoveredLook.scale
                 /\ look.emissive < HoveredLook.emissive
                 /\ look.opacity < HoveredLook.opacity
            /\ HoveredLook.scale < SelectedLook.scale
            /\ HoveredLook.emissive < SelectedLook.emissive
            /\ HoveredLook.opacity < SelectedLook.opacity]_vars

\* C18 happens: a step has drawn a marker that is both selected and hovered,
\* with the selected values, next to an ambient marker near the top of its pulse
C18_SelectedWhileHovered ==
  \E i, j \in DOMAIN drawn :
    /\ IdOf(sensors[i]) = selectedId /\ IdOf(sensors[i]) = hoveredId
    /\ drawn[i] = SelectedLook
    /\ drawn[j].scale > 1100 /\ drawn[j].scale < HoveredLook.scale

\* A step taken by one of the four touch listeners
TouchStep ==
  \E p \in AllPoints :
    \/ TouchStart(<<ClientPoint(p)>>, p)
    \/ TouchMove(<<ClientPoint(p)>>, p)
    \/ \E ts \in TouchLists(p) : TouchEnd(ts, p) \/ TouchCancel(ts, p)

\* C19: a step that changes the hovered sensor or the cursor is a mouse move;
\* no touchstart, touchmove, touchend or touchcancel changes them.
C19_TouchKeepsHover ==
  [][hoverVars' # hoverVars => (\E p \in AllPoints : MouseMove(p)) /\ ~TouchStep]_vars

\* C19 happens: a finger has been dragged onto a marker and nothing is hovered
C19_FingerOnMarker ==
  /\ isDragging /\ dragDist > 0
  /\ lastX = PointA[1] /\ lastY = PointA[2] /\ MetAt(PointA) # {}
  /\ hoveredId = NullId /\ cursor = "grab"

\* C20: while the viewer is mounted, the camera aspect is the container's
\* current width over its current height and the renderer has the container's
\* current width and height: at mount and after every resize handled.
C20_ResizeRefits ==
  tdPc = 0 =>
    /\ cameraAspect = <<container[1], container[2]>>
    /\ rendererSize = container

\* C21: after every mouse move, whether or not a drag is in progress, the
\* hovered sensor id is the id of the nearest marker the ray cast from the
\* pointer coordinates meets, or null when it meets none, and the cursor is
\* "pointer" exactly when the hovered id is not null and "grab" otherwise.
C21_HoverRule ==
  [][\A p \in AllPoints :
       MouseMove(p) =>
         /\ hoveredId' = (IF MetAt(p) = {} THEN NullId ELSE FirstMet(p).id)
         /\ cursor' = (IF hoveredId' # NullId THEN "pointer" ELSE "grab")]_vars

\* C21 happens: the mouse is held down, has been moved onto SensorA, and
\* SensorA is hovered under a pointer cursor
C21_HoverWhileDragging ==
  /\ isDragging /\ dragDist > 0
  /\ lastX = PointA[1] /\ lastY = PointA[2] /\ MetAt(PointA) # {}
  /\ hoveredId = SensorA.id /\ cursor = "pointer"

\* C22: on an executed animation step taken while not dragging, rotationY grows
\* by the velocity as it stood before the step plus the idle increment, and
\* the velocity is multiplied by 0.94.
C22_IdleStepOrder ==
  [][(renders' # renders /\ ~isDragging) =>
       /\ rotationY' = rotationY + velX
                        + (IF isMobile THEN IdleYawMobile ELSE IdleYawDesktop) * Scale
       /\ velX' * DecayDen = velX * DecayNum]_vars

\* C22 as amended: on an executed animation step taken while not dragging,
\* rotationY grows by 0.94 times the velocity before the step, which is the
\* velocity after the step, plus the idle increment, and the velocity is
\* multiplied by 0.94.
C22_IdleStepDecayed ==
  [][(renders' # renders /\ ~isDragging) =>
       /\ velX' * DecayDen = velX * DecayNum
       /\ rotationY' = rotationY + velX'
                        + (IF isMobile THEN IdleYawMobile ELSE IdleYawDesktop) * Scale]_vars

\* C22 happens: a drag was released spinning and one animation step has run
\* since, leaving a smaller velocity
C22_OneIdleStep ==
  ~isDragging /\ idleFrom # 0 /\ idleSteps = 1 /\ velX # idleFrom /\ velX # 0

\* C23: an executed animation step taken while a drag is in progress leaves
\* rotationY, rotationX and the angular velocity as they were: no decay and no
\* idle rotation.
C23_DragFreezesOrbit ==
  [][(renders' # renders /\ isDragging) =>
       /\ rotationY' = rotationY
       /\ rotationX' = rotationX
       /\ velX' = velX]_vars

\* C23 happens: a step has been drawn and the aircraft has been turned by
\* nothing but the one move of the drag in progress
C23_StepWhileDragging ==
  /\ isDragging /\ dragDist > 0 /\ renders > 0
  /\ velX # 0 /\ rotationY = velX

DownStep ==
  \E p \in OrbitPoints : MouseDown(p) \/ TouchStart(<<ClientPoint(p)>>, p)
MoveStep ==
  \E p \in OrbitPoints : MouseMove(p) \/ TouchMove(<<ClientPoint(p)>>, p)

\* C25: every mouse-down or touch-down sets dragDist to 0; the only other
\* steps that change it are moves while dragging, which make it grow; a step
\* that records a new position while dragging adds |dx| + |dy| measured from
\* the last recorded position.  Hence a move while idle, an up, a cancel, an
\* animation step, a resize and the teardown leave it as it was.
C25_DragDistance ==
  [][/\ (isDragging' /\ dragDist' # 0) => ~DownStep
     /\ dragDist' # dragDist =>
          \/ dragDist' = 0 /\ DownStep
          \/ /\ isDragging /\ dragDist' > dragDist
             /\ dragDist' = dragDist + Abs(lastX' - lastX) + Abs(lastY' - lastY)
             /\ MoveStep
     /\ (isDragging /\ <<lastX', lastY'>> # <<lastX, lastY>>) =>
          \/ dragDist' = 0 /\ DownStep
          \/ dragDist' = dragDist + Abs(lastX' - lastX) + Abs(lastY' - lastY)]_vars

\* C25 happens: a second gesture is in progress after a first one that had
\* moved: the counter was reset and has grown again, after animation steps
C25_DistanceGrown ==
  /\ isDragging /\ dragDist = 3 /\ idleFrom # 0 /\ idleSteps > 0

\* C26: the hit-test set holds exactly one core per record of the sensor list,
\* in the order of the list, and each core refers back to its own record; on
\* the empty list there is no core, nothing is ever hovered and the selection
\* stays none.
C26_OneMarkerPerSensor ==
  /\ Len(sensorMeshes) = Len(sensors)
  /\ \A i \in DOMAIN sensors : sensorMeshes[i].userData.sensor = sensors[i]
  /\ sensors = <<>> =>
       /\ sensorMeshes = <<>>
       /\ hoveredId = NullId /\ cursor = "grab"
       /\ selected = JsNull /\ selectedId = Undefined

\* C26 happens: on the list SensorB, SensorA a tap where only SensorA's core
\* lies has selected the second record
C26_SecondRecordTapped ==
  /\ sensors = <<SensorB, SensorA>>
  /\ ~isDragging /\ dragDist = 0 /\ lastX = PointA[1] /\ lastY = PointA[2]
  /\ selected = sensors[2] /\ selectedId = SensorA.id

\* C27: a mouse-up that no mouse-down on the viewer has preceded since the
\* previous release (no drag is in progress: the button was pressed somewhere
\* else, on the detail panel for one) leaves the selection as it was.
C27_StrayReleaseKeeps ==
  [][(~isDragging /\ \E p \in AllPoints : MouseUp(p)) =>
       selected' = selected /\ selectedId' = selectedId]_vars

\* C28: in every reachable state the selection is none or one of the records
\* of the sensor list the viewer was mounted on, and the hovered id is null or
\* the id of one of those records.
C28_KnownRecords ==
  /\ selected = JsNull \/ \E i \in DOMAIN sensors : selected = sensors[i]
  /\ selectedId = Undefined \/ \E i \in DOMAIN sensors : selectedId = sensors[i].id
  /\ hoveredId = NullId \/ \E i \in DOMAIN sensors : hoveredId = sensors[i].id

\* C28 happens: with the mouse button up, one record of a list of two is
\* selected and the mouse hovers the other
C28_BothSet ==
  /\ Len(sensors) = 2 /\ ~isDragging
  /\ \E i, j \in DOMAIN sensors :
       i # j /\ selected = sensors[i] /\ hoveredId = sensors[j].id

\* C29: at most one frame request is pending in every reachable state.  While
\* the viewer is mounted exactly one is pending, the one made by the latest
\* invocation of animate, executed or skipped; once the cleanup has run none
\* is pending.
C29_OneFramePending ==
  /\ Cardinality(rafQueue) <= 1
  /\ tdPc = 0 => rafQueue = {rafId} /\ rafId = rafSeq
  /\ tdPc > 0 => rafQueue = {}

\* C29 happens: on the constrained profile animate has been invoked three
\* times, twice skipped and once executed, and its third request is pending
C29_SkippedAndPending ==
  /\ isMobile /\ tdPc = 0
  /\ rafSeq = 3 /\ renders = 1 /\ rafQueue = {3}

\* Are two vectors of normalized device coordinates the same point?
SameNDC(a, b) ==
  /\ QLeq(a.x, b.x) /\ QLeq(b.x, a.x)
  /\ QLeq(a.y, b.y) /\ QLeq(b.y, a.y)

\* C30: on every mouse move (hover) and on every mouse release below the tap
\* threshold (tap), the normalized device coordinates the handler casts its
\* ray through, computed from W and H, are those of the pointer in the
\* container as it is now: computed from its current width and height.
C30_HitTestFollowsResize ==
  [][\A p \in AllPoints :
       (MouseMove(p) \/ (IsTap(dragDist) /\ MouseUp(p))) =>
         SameNDC(ToNDC(p[1], p[2], W, H),
                 ToNDC(p[1], p[2], container[1], container[2]))]_vars
====
